---- MODULE Spec2Model ----
(***************************************************************************)
(* Authentication and session-cache subsystem of the contacts API:         *)
(* routes/auth.py (signup, login, confirmation, password reset, refresh),  *)
(* services/auth.py (password hashing, token codec, get_current_user with  *)
(* its Redis read-through cache), repository/users.py (persistence)       *)
(* and the fastapi-limiter dependency in front of routes/contacts.py.      *)
(*                                                                         *)
(* Time is the whole-second UTC clock that python-jose writes into and     *)
(* compares against the iat / exp claims.  A token is the pair of its      *)
(* claims dict and a flag telling whether its signature verifies under     *)
(* SECRET_KEY; jwt.encode is deterministic, so two tokens with equal       *)
(* claims are the same string.                                             *)
(***************************************************************************)
EXTENDS Integers, Sequences, FiniteSets, TLC

\* ------------------------------------------------------------------ bounds
MaxTicks == 2
MaxIssued == 5
MaxMail == 1
MaxUsers == 1
NumLookups == 1
NumSalts == 1
MaxCalls == 7
MaxWaits == 2
NumConns == 2

\* ------------------------------------------------------- program constants
ACCESS_TOKEN_EXPIRE == 15 * 60
REFRESH_TOKEN_EXPIRE == 7 * 24 * 60 * 60
EMAIL_TOKEN_EXPIRE == 7 * 24 * 60 * 60
CACHE_EXPIRE == 120

\* ------------------------------------------------------------ input domains
Emails == {"a@x.com", "b@x.com"}
Passwords == {"pw1", "pw2"}
Salts == 1..NumSalts
Lookups == 1..NumLookups
\* Clock advances: to the next second, by the life of a cache entry and by the
\* life of an access token.
TimeJumps == {1, CACHE_EXPIRE, ACCESS_TOKEN_EXPIRE}
\* Clients of the rate-limited routes, told apart by their address.
Clients == {"10.0.0.1"}
Conns == 1..NumConns
\* Addresses of uploaded avatar images.
Urls == {"url1"}

\* Python None for an Optional value: the empty tuple; Some(x) is <<x>>.
None == <<>>
Some(x) == <<x>>

VARIABLES
    now,      \* current UTC time in whole seconds
    ticks,    \* number of clock advances so far (bounded by MaxTicks)
    users,    \* table "users": email -> row, domain = emails that have a row
    cache,    \* Redis db 0, identity keys: str(email) -> [snap, ttl]
    issued,   \* every token the server has handed out (held by clients)
    mailq,    \* background tasks added by the handlers, not yet run
    req,      \* get_current_user invocations in flight, one per lookup slot
    resp,     \* the response just produced and not yet sent, or NoResponse
    written,  \* history: email -> time of the last commit that changed the row
    limiter,  \* Redis db 0, fastapi-limiter keys: key -> [count, exp]
    calls,    \* history: the limiter decisions, in the order Redis took them
    lreq,     \* requests whose RateLimiter dependency is waiting on Redis
    contacts, \* table "contacts": id -> row, domain = ids that have a row
    nextid,   \* the next value of the id sequence of table "contacts"
    engine,   \* the database the deployment is configured with
    removed,  \* history: <<owner, id>> of every contact deleted with success
    today,    \* the local calendar date, <<year, month, day>>
    found,    \* the rows the last contact query returned, by id
    work,     \* handlers running in the worker processes, one per worker
    done      \* history: the responses of the workers, in order of completion

authVars == <<now, ticks, users, cache, issued, mailq, req, resp, written>>

limiterVars == <<limiter, calls, lreq>>

contactVars == <<contacts, nextid, engine, removed, today, found>>

raceVars == <<work, done>>

otherVars == <<limiterVars, contactVars, raceVars>>

vars == <<authVars, limiterVars, contactVars, raceVars>>

\* Commit time of every row: a row the step created or changed is stamped now.
Stamp ==
    [e \in DOMAIN users' |->
        IF e \in DOMAIN users /\ users'[e] = users[e] THEN written[e] ELSE now]

\* --------------------------------------------------------- Credential Hasher
\* bcrypt: the hash string carries the salt and is a function of
\* (password, salt); it is never the plaintext itself.
\* Mutant: the hash does not depend on the password.
get_password_hash_const(password, salt) == [bcrypt |-> "pw1", salt |-> salt]

get_password_hash(password, salt) == [bcrypt |-> password, salt |-> salt]

\* Mutant: every password verifies.
verify_password_any(plain_password, hashed_password) == TRUE

verify_password(plain_password, hashed_password) ==
    hashed_password.bcrypt = plain_password

\* --------------------------------------------------------------- Token Codec
\* `if expires_delta:` is false for None and for 0.
Truthy(expires_delta) == expires_delta # None /\ expires_delta[1] # 0

jwt_encode(to_encode) == [claims |-> to_encode, signed |-> TRUE]

\* to_encode.update({...}) overrides keys of data: the left operand of @@ wins.
create_access_token(data, expires_delta, t) ==
    LET expire == IF Truthy(expires_delta) THEN t + expires_delta[1]
                  ELSE t + ACCESS_TOKEN_EXPIRE
    IN jwt_encode([iat |-> t, exp |-> expire, scope |-> "access_token"] @@ data)

\* Mutant: the refresh token is given the access scope.
create_refresh_token_access(data, expires_delta, t) ==
    LET expire == IF Truthy(expires_delta) THEN t + expires_delta[1]
                  ELSE t + REFRESH_TOKEN_EXPIRE
    IN jwt_encode([iat |-> t, exp |-> expire, scope |-> "access_token"] @@ data)

create_refresh_token(data, expires_delta, t) ==
    LET expire == IF Truthy(expires_delta) THEN t + expires_delta[1]
                  ELSE t + REFRESH_TOKEN_EXPIRE
    IN jwt_encode([iat |-> t, exp |-> expire, scope |-> "refresh_token"] @@ data)

\* No scope claim is written into the email token.
create_email_token(data, t) ==
    jwt_encode([iat |-> t, exp |-> t + EMAIL_TOKEN_EXPIRE] @@ data)

\* Mutant: a token is already expired in the second of its exp claim.
jwt_decode_ok_strict(token, t) ==
    /\ token.signed
    /\ ("exp" \in DOMAIN token.claims => token.claims.exp > t)

\* jose.jwt.decode: signature check, then _validate_exp, which raises
\* ExpiredSignatureError (a JWTError) iff exp < now.
jwt_decode_ok(token, t) ==
    /\ token.signed
    /\ ("exp" \in DOMAIN token.claims => ~(token.claims.exp < t))

\* Mutant: the scope claim is not compared.
decode_refresh_token_noscope(token, t) ==
    IF ~(token.signed /\ ~(token.claims.exp < t)) THEN "401"
    ELSE IF "scope" \notin DOMAIN token.claims THEN "500"
    ELSE IF "sub" \in DOMAIN token.claims THEN "ok" ELSE "500"

\* Outcome of Auth.decode_refresh_token: "ok" (returns payload["sub"]),
\* "401" (HTTPException) or "500" (KeyError escapes the handler).
decode_refresh_token(token, t) ==
    IF ~jwt_decode_ok(token, t) THEN "401"
    ELSE IF "scope" \notin DOMAIN token.claims THEN "500"
    ELSE IF token.claims.scope = "refresh_token"
         THEN (IF "sub" \in DOMAIN token.claims THEN "ok" ELSE "500")
    ELSE "401"

\* Mutant: every token is refused as invalid.
get_email_from_token_reject(token, t) == "422"

\* Outcome of Auth.get_email_from_token: "ok", "422" or "500".
get_email_from_token(token, t) ==
    IF ~jwt_decode_ok(token, t) THEN "422"
    ELSE IF "sub" \in DOMAIN token.claims THEN "ok" ELSE "500"

\* Mutant: a bearer is refused once its identity has no stored refresh token.
verify_access_token_revoked(token, t) ==
    IF ~jwt_decode_ok(token, t) THEN "401"
    ELSE IF "scope" \notin DOMAIN token.claims THEN "500"
    ELSE IF token.claims.scope = "access_token"
         THEN (IF "sub" \notin DOMAIN token.claims THEN "500"
               ELSE IF /\ token.claims.sub \in DOMAIN users
                       /\ users[token.claims.sub].refresh_token = None
                    THEN "401"
               ELSE "ok")
    ELSE "401"

\* Outcome of the try block of Auth.get_current_user (lines 158-167).
verify_access_token(token, t) ==
    IF ~jwt_decode_ok(token, t) THEN "401"
    ELSE IF "scope" \notin DOMAIN token.claims THEN "500"
    ELSE IF token.claims.scope = "access_token"
         THEN (IF "sub" \in DOMAIN token.claims THEN "ok" ELSE "500")
    ELSE "401"

\* ---------------------------------------------------------------- Persistence
get_user_by_email(email, db) ==
    IF email \in DOMAIN db THEN Some(db[email]) ELSE None

\* Mutant: the new identity starts confirmed.
create_user_confirmed(body, db) ==
    (body.email :> [email |-> body.email, password |-> body.password,
                    avatar |-> None,
                    confirmed |-> TRUE, refresh_token |-> None]) @@ db

\* Mutant: the new row is not committed.
create_user_lost(body, db) == db

\* User(**body.model_dump()); confirmed defaults to False, refresh_token and
\* avatar to NULL.
create_user(body, db) ==
    (body.email :> [email |-> body.email, password |-> body.password,
                    avatar |-> None,
                    confirmed |-> FALSE, refresh_token |-> None]) @@ db

\* Mutant: a None token does not clear the stored value.
update_token_keep(user, token, db) ==
    IF token = None THEN db ELSE [db EXCEPT ![user.email].refresh_token = token]

\* Mutant: the new value is not written.
update_token_drop(user, token, db) == db

update_token(user, token, db) ==
    [db EXCEPT ![user.email].refresh_token = token]

\* Mutant: the flag is not written.
repo_confirmed_email_noop(email, db) == db

repo_confirmed_email(email, db) ==
    [db EXCEPT ![email].confirmed = TRUE]

\* Mutant: the reset also clears the stored refresh token.
update_password_logout(user, password, db) ==
    [db EXCEPT ![user.email].password = password,
               ![user.email].refresh_token = None]

\* Mutant: the new credential is not written.
update_password_drop(user, password, db) == db

update_password(user, password, db) ==
    [db EXCEPT ![user.email].password = password]

update_avatar(email, url, db) ==
    [db EXCEPT ![email].avatar = Some(url)]

\* ------------------------------------------------------------ Identity Cache
\* A key whose expiry time has been reached is gone (Redis removes it).
Live(c, t) ==
    LET keep == {k \in DOMAIN c : c[k].ttl = None \/ t < c[k].ttl[1]}
    IN [k \in keep |-> c[k]]

\* Mutant: the cache never answers.
r_get_miss(key) == None

r_get(key) == IF key \in DOMAIN cache THEN Some(cache[key].snap) ELSE None

\* SET replaces the value and discards any expiry the key had.
r_set(key, value) == (key :> [snap |-> value, ttl |-> None]) @@ cache

\* EXPIRE is a no-op on a key that does not exist.
r_expire(key, seconds) ==
    IF key \in DOMAIN cache
    THEN [cache EXCEPT ![key].ttl = Some(now + seconds)]
    ELSE cache

\* ------------------------------------------------------------------- clients
\* A bearer a client can present: any token the server has issued, or a token
\* made without SECRET_KEY, whose signature does not verify.
Tamper(token) == [token EXCEPT !.signed = FALSE]

ForgedToken == Tamper(create_access_token([sub |-> "a@x.com"], None, 0))

Presentable == issued \cup {ForgedToken}

NoTokens == <<>>

Response(op, status, detail) ==
    [op |-> op, status |-> status, detail |-> detail,
     tokens |-> NoTokens, user |-> None]

\* resp holds the response a handler has just produced until it is written
\* back to the client; the worker takes up other work after that.
NoResponse == Response("none", 0, "")

Ready == resp = NoResponse

NumWorkers == 2

Workers == 1..NumWorkers

IdleWork == [pc |-> "idle", body |-> None, token |-> None, seen |-> None]

IdleReq == [pc |-> "idle", email |-> None, user |-> None]

NoCall == [pc |-> "idle", key |-> None, route |-> None]

\* The state after start-up on database engine e, with the rows of table
\* "contacts" and the calendar date given.
InitWith(e, table, date) ==
    /\ now = 0
    /\ ticks = 0
    /\ users = <<>>
    /\ cache = <<>>
    /\ issued = {}
    /\ mailq = {}
    /\ req = [r \in Lookups |-> IdleReq]
    /\ resp = NoResponse
    /\ written = <<>>
    /\ limiter = <<>>
    /\ calls = <<>>
    /\ lreq = [c \in Conns |-> NoCall]
    /\ contacts = table
    /\ nextid = Len(table) + 1
    /\ engine = e
    /\ removed = {}
    /\ today = date
    /\ found = None
    /\ work = [w \in Workers |-> IdleWork]
    /\ done = <<>>

Epoch == <<1970, 1, 1>>

\* The state after start-up on database engine e, with no contact stored.
InitOn(e) == InitWith(e, <<>>, Epoch)

Init == InitOn("postgresql")

\* ------------------------------------------------------------- routes/auth.py
\* POST /auth/signup
signup(email, password, salt) ==
    Ready /\ LET exist_user == get_user_by_email(email, users)
        body == [email |-> email, password |-> get_password_hash(password, salt)]
    IN /\ IF exist_user # None
          THEN /\ resp' = Response("signup", 409, "Account already exists")
               /\ UNCHANGED <<users, mailq>>
          ELSE /\ users' = create_user(body, users)
               /\ Cardinality(DOMAIN users') <= MaxUsers
               /\ mailq' = mailq \cup {[to |-> email, kind |-> "confirm"]}
               /\ Cardinality(mailq') <= MaxMail
               /\ resp' = Response("signup", 201, "User successfully created")
       /\ UNCHANGED <<now, ticks, cache, issued, req>>
       /\ written' = Stamp
       /\ UNCHANGED otherVars

\* Mutant: login does not test the confirmed flag.
login_unconfirmed(username, password) ==
    Ready /\ LET user == get_user_by_email(username, users)
        access_token == create_access_token([sub |-> username], None, now)
        refresh_token == create_refresh_token([sub |-> username], None, now)
        fail(detail) ==
            /\ resp' = Response("login", 401, detail)
            /\ UNCHANGED <<users, issued>>
    IN /\ IF user = None THEN fail("Invalid email")
          ELSE IF ~verify_password(password, user[1].password)
               THEN fail("Invalid password")
          ELSE /\ users' = update_token(user[1], Some(refresh_token), users)
               /\ issued' = issued \cup {access_token, refresh_token}
               /\ Cardinality(issued') <= MaxIssued
               /\ resp' = [Response("login", 200, "")
                             EXCEPT !.tokens = <<access_token, refresh_token>>]
       /\ UNCHANGED <<now, ticks, cache, mailq, req>>
       /\ written' = Stamp
       /\ UNCHANGED otherVars

\* POST /auth/login
login(username, password) ==
    Ready /\ LET user == get_user_by_email(username, users)
        access_token == create_access_token([sub |-> username], None, now)
        refresh_token == create_refresh_token([sub |-> username], None, now)
        fail(detail) ==
            /\ resp' = Response("login", 401, detail)
            /\ UNCHANGED <<users, issued>>
    IN /\ IF user = None THEN fail("Invalid email")
          ELSE IF ~user[1].confirmed THEN fail("Email not confirmed")
          ELSE IF ~verify_password(password, user[1].password)
               THEN fail("Invalid password")
          ELSE /\ users' = update_token(user[1], Some(refresh_token), users)
               /\ issued' = issued \cup {access_token, refresh_token}
               /\ Cardinality(issued') <= MaxIssued
               /\ resp' = [Response("login", 200, "")
                             EXCEPT !.tokens = <<access_token, refresh_token>>]
       /\ UNCHANGED <<now, ticks, cache, mailq, req>>
       /\ written' = Stamp
       /\ UNCHANGED otherVars

\* GET /auth/confirmed_email/{token}
confirmed_email(token) ==
    Ready /\ LET decoded == get_email_from_token(token, now)
        reply(status, detail) ==
            resp' = Response("confirmed_email", status, detail)
    IN /\ IF decoded = "422"
          THEN reply(422, "Invalid token for email verification")
               /\ UNCHANGED users
          ELSE IF decoded = "500"
          THEN reply(500, "KeyError") /\ UNCHANGED users
          ELSE LET email == token.claims.sub
                   user == get_user_by_email(email, users)
               IN IF user = None
                  THEN reply(400, "Verification error") /\ UNCHANGED users
                  ELSE IF user[1].confirmed
                  THEN reply(200, "Your email is already confirmed")
                       /\ UNCHANGED users
                  ELSE /\ users' = repo_confirmed_email(email, users)
                       /\ reply(200, "Email confirmed")
       /\ UNCHANGED <<now, ticks, cache, issued, mailq, req>>
       /\ written' = Stamp
       /\ UNCHANGED otherVars

\* POST /auth/request_email.  user.confirmed is read before the None test, so
\* an unknown address ends in AttributeError (500).
request_email(email) ==
    Ready /\ LET user == get_user_by_email(email, users)
        reply(status, detail) ==
            resp' = Response("request_email", status, detail)
    IN /\ IF user = None
          THEN reply(500, "AttributeError") /\ UNCHANGED mailq
          ELSE IF user[1].confirmed
          THEN reply(200, "Your email is already confirmed") /\ UNCHANGED mailq
          ELSE /\ mailq' = mailq \cup {[to |-> email, kind |-> "confirm"]}
               /\ reply(200, "Check your email for confirmation.")
       /\ UNCHANGED <<now, ticks, users, cache, issued, req, written>>
       /\ UNCHANGED otherVars

\* POST /auth/request_reset_password
request_reset_password(email) ==
    Ready /\ LET user == get_user_by_email(email, users)
    IN /\ IF user # None
          THEN /\ mailq' = mailq \cup {[to |-> email, kind |-> "reset"]}
               /\ Cardinality(mailq') <= MaxMail
          ELSE UNCHANGED mailq
       /\ resp' = Response("request_reset_password", 200,
                           "Check your email for confirmation.")
       /\ UNCHANGED <<now, ticks, users, cache, issued, req, written>>
       /\ UNCHANGED otherVars

\* Mutant: a successful reset also deletes the cache key of the identity.
reset_password_invalidating(token, password1, password2, salt) ==
    Ready /\ LET decoded == get_email_from_token(token, now)
        reply(status, detail) ==
            resp' = Response("reset_password", status, detail)
    IN /\ IF decoded = "422"
          THEN reply(422, "Invalid token for email verification")
               /\ UNCHANGED <<users, cache>>
          ELSE IF decoded = "500"
          THEN reply(500, "KeyError") /\ UNCHANGED <<users, cache>>
          ELSE LET email == token.claims.sub
                   user == get_user_by_email(email, users)
               IN IF user = None
                  THEN reply(400, "Verification error") /\ UNCHANGED <<users, cache>>
                  ELSE IF password1 # password2
                  THEN reply(200, "Passwords do not match!")
                       /\ UNCHANGED <<users, cache>>
                  ELSE /\ users' = update_password(
                                      user[1], get_password_hash(password1, salt), users)
                       /\ cache' = [k \in DOMAIN cache \ {email} |-> cache[k]]
                       /\ reply(200, "Password reset successfully")
       /\ UNCHANGED <<now, ticks, issued, mailq, req>>
       /\ written' = Stamp
       /\ UNCHANGED otherVars

\* POST /auth/reset_password/{token}
reset_password(token, password1, password2, salt) ==
    Ready /\ LET decoded == get_email_from_token(token, now)
        reply(status, detail) ==
            resp' = Response("reset_password", status, detail)
    IN /\ IF decoded = "422"
          THEN reply(422, "Invalid token for email verification")
               /\ UNCHANGED users
          ELSE IF decoded = "500"
          THEN reply(500, "KeyError") /\ UNCHANGED users
          ELSE LET email == token.claims.sub
                   user == get_user_by_email(email, users)
               IN IF user = None
                  THEN reply(400, "Verification error") /\ UNCHANGED users
                  ELSE IF password1 # password2
                  THEN reply(200, "Passwords do not match!") /\ UNCHANGED users
                  ELSE /\ users' = update_password(
                                      user[1], get_password_hash(password1, salt), users)
                       /\ reply(200, "Password reset successfully")
       /\ UNCHANGED <<now, ticks, cache, issued, mailq, req>>
       /\ written' = Stamp
       /\ UNCHANGED otherVars

\* GET /auth/refresh_token
refresh_token(token) ==
    Ready /\ LET decoded == decode_refresh_token(token, now)
        reply(status, detail) ==
            resp' = Response("refresh_token", status, detail)
    IN /\ IF decoded = "401"
          THEN /\ reply(401, IF jwt_decode_ok(token, now)
                             THEN "Invalid scope for token"
                             ELSE "Could not validate credentials")
               /\ UNCHANGED <<users, issued>>
          ELSE IF decoded = "500"
          THEN reply(500, "KeyError") /\ UNCHANGED <<users, issued>>
          ELSE LET email == token.claims.sub
                   user == get_user_by_email(email, users)
                   access_token == create_access_token([sub |-> email], None, now)
                   new_refresh == create_refresh_token([sub |-> email], None, now)
               IN IF user = None
                  THEN reply(500, "AttributeError") /\ UNCHANGED <<users, issued>>
                  ELSE IF user[1].refresh_token # Some(token)
                  THEN /\ users' = update_token(user[1], None, users)
                       /\ reply(401, "Invalid refresh token")
                       /\ UNCHANGED issued
                  ELSE /\ users' = update_token(user[1], Some(new_refresh), users)
                       /\ issued' = issued \cup {access_token, new_refresh}
                       /\ Cardinality(issued') <= MaxIssued
                       /\ resp' = [Response("refresh_token", 200, "")
                                     EXCEPT !.tokens = <<access_token, new_refresh>>]
       /\ UNCHANGED <<now, ticks, cache, mailq, req>>
       /\ written' = Stamp
       /\ UNCHANGED otherVars

\* ---------------------------------------------------------- services/email.py
\* The background task added by signup / request_email / request_reset_password:
\* it builds an email token for the address and mails the link; a failed send
\* is absorbed.  The recipient then holds the token.
send_email(m, delivered) ==
    /\ Ready
    /\ m \in mailq
    /\ mailq' = mailq \ {m}
    /\ IF delivered
       THEN /\ issued' = issued \cup {create_email_token([sub |-> m.to], now)}
            /\ Cardinality(issued') <= MaxIssued
       ELSE UNCHANGED issued
    /\ UNCHANGED <<now, ticks, users, cache, req, resp, written>>
    /\ UNCHANGED otherVars

\* --------------------------------------------- services/auth.py get_current_user
credentials_exception ==
    Response("get_current_user", 401, "Could not validate credentials")

\* What the dependency hands to the route: the resolved user.
Resolved(user) == [Response("get_current_user", 200, "") EXCEPT !.user = user]

\* Lines 158-167: decode and scope check; on success the r.get is sent.
GcuBegin(r, token) ==
    /\ Ready
    /\ req[r].pc = "idle"
    /\ LET v == verify_access_token(token, now)
       IN IF v = "ok"
          THEN /\ req' = [req EXCEPT ![r] = [pc |-> "get",
                              email |-> Some(token.claims.sub), user |-> None]]
               /\ UNCHANGED resp
          ELSE /\ resp' = IF v = "401" THEN credentials_exception
                          ELSE Response("get_current_user", 500, "KeyError")
               /\ UNCHANGED req
    /\ UNCHANGED <<now, ticks, users, cache, issued, mailq, written>>
    /\ UNCHANGED otherVars

\* Lines 169-173 and 177: r.get answers; a hit is unpickled and returned, on a
\* miss the row is queried by email.
GcuCacheGet(r) ==
    /\ Ready
    /\ req[r].pc = "get"
    /\ LET email == req[r].email[1]
           cached == r_get(email)
           row == get_user_by_email(email, users)
       IN IF cached # None
          THEN /\ resp' = Resolved(cached)
               /\ req' = [req EXCEPT ![r] = IdleReq]
          ELSE IF row = None
          THEN /\ resp' = credentials_exception
               /\ req' = [req EXCEPT ![r] = IdleReq]
          ELSE /\ req' = [req EXCEPT ![r].pc = "set", ![r].user = row]
               /\ UNCHANGED resp
    /\ UNCHANGED <<now, ticks, users, cache, issued, mailq, written>>
    /\ UNCHANGED otherVars

\* Line 174: r.set(str(email), pickle.dumps(user))
GcuCacheSet(r) ==
    /\ Ready
    /\ req[r].pc = "set"
    /\ cache' = r_set(req[r].email[1], req[r].user[1])
    /\ req' = [req EXCEPT ![r].pc = "expire"]
    /\ UNCHANGED <<now, ticks, users, issued, mailq, resp, written>>
    /\ UNCHANGED otherVars

\* Lines 175-176: r.expire(str(email), 120); return user
GcuCacheExpire(r) ==
    /\ Ready
    /\ req[r].pc = "expire"
    /\ cache' = r_expire(req[r].email[1], CACHE_EXPIRE)
    /\ resp' = Resolved(req[r].user)
    /\ req' = [req EXCEPT ![r] = IdleReq]
    /\ UNCHANGED <<now, ticks, users, issued, mailq, written>>
    /\ UNCHANGED otherVars

\* The Redis call the lookup is waiting on raises ConnectionError; nothing in
\* get_current_user catches it, so the request ends in 500.
GcuCacheDown(r) ==
    /\ Ready
    /\ req[r].pc \in {"get", "set", "expire"}
    /\ resp' = Response("get_current_user", 500, "ConnectionError")
    /\ req' = [req EXCEPT ![r] = IdleReq]
    /\ UNCHANGED <<now, ticks, users, cache, issued, mailq, written>>
    /\ UNCHANGED otherVars

\* ------------------------------------------------------------------------ time
Tick(d) ==
    /\ Ready
    /\ ticks < MaxTicks
    /\ now' = now + d
    /\ ticks' = ticks + 1
    /\ cache' = Live(cache, now')
    /\ UNCHANGED <<users, issued, mailq, req, resp, written>>
    /\ UNCHANGED otherVars

\* The response is sent.
Reply ==
    /\ ~Ready
    /\ resp' = NoResponse
    /\ UNCHANGED <<now, ticks, users, cache, issued, mailq, req, written>>
    /\ UNCHANGED otherVars

\* ------------------------------------------- routes/contacts.py RateLimiter
\* Dependencies of the contact routes: RateLimiter(times, seconds).
RateLimits ==
    [get_contacts |-> [times |-> 5, seconds |-> 60],
     search_contacts |-> [times |-> 10, seconds |-> 60],
     get_upcoming_birthdays |-> [times |-> 5, seconds |-> 60],
     get_contact |-> [times |-> 10, seconds |-> 60],
     create_contact |-> [times |-> 2, seconds |-> 180],
     update_contact |-> [times |-> 5, seconds |-> 120],
     remove_contact |-> [times |-> 5, seconds |-> 60]]

\* The routes whose limiter is exercised.
Limited == {"get_contacts"}

\* Lengths of time a client lets pass between calls.
WindowJumps == {1, 59, 60}

\* The routes of the router in the order of their declaration, with the path
\* each is registered under.
RoutePath ==
    [get_contacts |-> "/api/contacts/",
     search_contacts |-> "/api/contacts/search",
     get_upcoming_birthdays |-> "/api/contacts/upcoming_birthdays",
     get_contact |-> "/api/contacts/{contact_id}",
     create_contact |-> "/api/contacts/",
     update_contact |-> "/api/contacts/{contact_id}",
     remove_contact |-> "/api/contacts/{contact_id}"]

RouteOrder ==
    <<"get_contacts", "search_contacts", "get_upcoming_birthdays",
      "get_contact", "create_contact", "update_contact", "remove_contact">>

\* The path of a request to a route; the contact addressed is contact 1.
request_path(route) ==
    IF RoutePath[route] = "/api/contacts/{contact_id}"
    THEN "/api/contacts/1"
    ELSE RoutePath[route]

\* The limiter looks the route up by comparing the registered path with the
\* path of the request: its position when they are equal, 0 when none is.
route_index(route) ==
    IF RoutePath[route] = request_path(route)
    THEN CHOOSE i \in 1..Len(RouteOrder) : RouteOrder[i] = route
    ELSE 0

\* The key of a call: the client address, the request path and the index of
\* the route.
limiter_key(client, route) ==
    <<client, request_path(route), route_index(route)>>

\* Mutant: a rejected call arms the expiry again.
lua_script_rearm(store, key, limit, expire_time, t) ==
    LET current == IF key \in DOMAIN store THEN store[key].count ELSE 0
    IN IF current > 0
       THEN IF current + 1 > limit
            THEN [store |-> [store EXCEPT ![key].exp = t + expire_time],
                  pexpire |-> expire_time]
            ELSE [store |-> [store EXCEPT ![key].count = @ + 1], pexpire |-> 0]
       ELSE [store |-> (key :> [count |-> 1, exp |-> t + expire_time]) @@ store,
             pexpire |-> 0]

\* Mutant: the limit is compared with the count before the increment.
lua_script_late(store, key, limit, expire_time, t) ==
    LET current == IF key \in DOMAIN store THEN store[key].count ELSE 0
    IN IF current > 0
       THEN IF current > limit
            THEN [store |-> store, pexpire |-> store[key].exp - t]
            ELSE [store |-> [store EXCEPT ![key].count = @ + 1], pexpire |-> 0]
       ELSE [store |-> (key :> [count |-> 1, exp |-> t + expire_time]) @@ store,
             pexpire |-> 0]

\* The script FastAPILimiter.init loads into Redis, which runs it as one
\* command: GET the counter; absent, SET it to 1 with the window as expiry;
\* present and at the limit, return its PTTL; else INCR.  0 means allowed.
lua_script(store, key, limit, expire_time, t) ==
    LET current == IF key \in DOMAIN store THEN store[key].count ELSE 0
    IN IF current > 0
       THEN IF current + 1 > limit
            THEN [store |-> store, pexpire |-> store[key].exp - t]
            ELSE [store |-> [store EXCEPT ![key].count = @ + 1], pexpire |-> 0]
       ELSE [store |-> (key :> [count |-> 1, exp |-> t + expire_time]) @@ store,
             pexpire |-> 0]

InFlight == {c \in Conns : lreq[c].pc = "evalsha"}

\* A request reaches a limited route: its RateLimiter dependency builds the
\* key and sends the script call to Redis.
RateLimiterCall(c, client, route) ==
    /\ lreq[c].pc = "idle"
    /\ Len(calls) + Cardinality(InFlight) < MaxCalls
    /\ lreq' = [lreq EXCEPT ![c] =
                    [pc |-> "evalsha", key |-> Some(limiter_key(client, route)),
                     route |-> Some(route)]]
    /\ UNCHANGED <<authVars, limiter, calls, contactVars, raceVars>>

\* Redis runs the script; a non-zero answer makes the dependency raise
\* 429 Too Many Requests, zero lets the request through to the handler.
RateLimiterCheck(c) ==
    /\ lreq[c].pc = "evalsha"
    /\ LET key == lreq[c].key[1]
           lim == RateLimits[lreq[c].route[1]]
           out == lua_script(limiter, key, lim.times, lim.seconds, now)
       IN /\ limiter' = out.store
          /\ calls' = Append(calls,
                 [key |-> key, route |-> lreq[c].route[1], t |-> now,
                  status |-> IF out.pexpire # 0 THEN 429 ELSE 200,
                  overlap |-> \E d \in InFlight \ {c} : lreq[d].key = lreq[c].key])
    /\ lreq' = [lreq EXCEPT ![c] = NoCall]
    /\ UNCHANGED <<authVars, contactVars, raceVars>>

\* Time passes for the limiter; Redis drops the counters whose expiry is
\* reached.
Wait(d) ==
    /\ ticks < MaxWaits
    /\ now' = now + d
    /\ ticks' = ticks + 1
    /\ limiter' = [k \in {j \in DOMAIN limiter : now' < limiter[j].exp}
                       |-> limiter[k]]
    /\ UNCHANGED <<users, cache, issued, mailq, req, resp, written, calls, lreq>>
    /\ UNCHANGED <<contactVars, raceVars>>

Next ==
    \/ Reply
    \/ \E e \in Emails, p \in Passwords, s \in Salts : signup(e, p, s)
    \/ \E e \in Emails, p \in Passwords : login(e, p)
    \/ \E t \in Presentable : confirmed_email(t)
    \/ \E e \in Emails : request_email(e)
    \/ \E e \in Emails : request_reset_password(e)
    \/ \E t \in Presentable, p1, p2 \in Passwords, s \in Salts :
           reset_password(t, p1, p2, s)
    \/ \E t \in Presentable : refresh_token(t)
    \/ \E m \in mailq, d \in BOOLEAN : send_email(m, d)
    \/ \E r \in Lookups, t \in Presentable : GcuBegin(r, t)
    \/ \E r \in Lookups : GcuCacheGet(r)
    \/ \E r \in Lookups : GcuCacheSet(r)
    \/ \E r \in Lookups : GcuCacheExpire(r)
    \/ \E d \in TimeJumps : Tick(d)

Spec == Init /\ [][Next]_vars

\* The same system with Redis outages.
NextOutage ==
    \/ Next
    \/ \E r \in Lookups : GcuCacheDown(r)

SpecOutage == Init /\ [][NextOutage]_vars

\* The rate limiter in front of the contact routes.
NextLimiter ==
    \/ \E c \in Conns, a \in Clients, route \in Limited : RateLimiterCall(c, a, route)
    \/ \E c \in Conns : RateLimiterCheck(c)
    \/ \E d \in WindowJumps : Wait(d)

SpecLimiter == Init /\ [][NextLimiter]_vars

\* Several clients on several limited routes, one request at a time.
QuotaClients == {"10.0.0.1", "10.0.0.2"}

QuotaRoutes == {"get_contact", "create_contact", "update_contact"}

QuotaJumps == {180}

MaxQuotaCalls == 6

NextQuota ==
    \/ /\ Len(calls) < MaxQuotaCalls
       /\ \E a \in QuotaClients, route \in QuotaRoutes :
            RateLimiterCall(1, a, route)
    \/ RateLimiterCheck(1)
    \/ \E d \in QuotaJumps : Wait(d)

SpecQuota == Init /\ [][NextQuota]_vars

\* --------------------------------------------------------- routes/users.py
\* PATCH /users/avatar: the image is uploaded and its address stored for the
\* current user.
update_avatar_user(email, url) ==
    /\ Ready
    /\ email \in DOMAIN users
    /\ users' = update_avatar(email, url, users)
    /\ resp' = [Response("update_avatar_user", 200, "")
                  EXCEPT !.user = Some(users'[email])]
    /\ written' = Stamp
    /\ UNCHANGED <<now, ticks, cache, issued, mailq, req>>
    /\ UNCHANGED otherVars

\* The authentication flows together with the avatar route.
NextAvatar ==
    \/ Next
    \/ \E e \in Emails, u \in Urls : update_avatar_user(e, u)

SpecAvatar == Init /\ [][NextAvatar]_vars

\* ------------------------------------------------ the token codec on its own
\* Lifetimes a caller passes as expires_delta: none, zero, and two lengths.
Deltas == {None, Some(0), Some(1), Some(60)}

Issued(op, token) == [Response(op, 200, "") EXCEPT !.tokens = <<token>>]

call_create_access_token(email, expires_delta) ==
    /\ Ready
    /\ resp' = Issued("create_access_token",
                       create_access_token([sub |-> email], expires_delta, now))
    /\ UNCHANGED <<now, ticks, users, cache, issued, mailq, req, written>>
    /\ UNCHANGED otherVars

call_create_refresh_token(email, expires_delta) ==
    /\ Ready
    /\ resp' = Issued("create_refresh_token",
                       create_refresh_token([sub |-> email], expires_delta, now))
    /\ UNCHANGED <<now, ticks, users, cache, issued, mailq, req, written>>
    /\ UNCHANGED otherVars

call_create_email_token(email) ==
    /\ Ready
    /\ resp' = Issued("create_email_token",
                       create_email_token([sub |-> email], now))
    /\ UNCHANGED <<now, ticks, users, cache, issued, mailq, req, written>>
    /\ UNCHANGED otherVars

NextCodec ==
    \/ Reply
    \/ \E e \in Emails, d \in Deltas : call_create_access_token(e, d)
    \/ \E e \in Emails, d \in Deltas : call_create_refresh_token(e, d)
    \/ \E e \in Emails : call_create_email_token(e)
    \/ \E d \in TimeJumps : Tick(d)

SpecCodec == Init /\ [][NextCodec]_vars

\* The users table loses a row (the table is dropped and created again, as
\* the test fixture does); tokens signed before that still verify.
drop_all(email) ==
    /\ Ready
    /\ email \in DOMAIN users
    /\ users' = [e \in DOMAIN users \ {email} |-> users[e]]
    /\ written' = [e \in DOMAIN users \ {email} |-> written[e]]
    /\ UNCHANGED <<now, ticks, cache, issued, mailq, req, resp>>
    /\ UNCHANGED otherVars

\* The email-token flows (signup, the mailed links, confirmation and reset)
\* over a table that can lose rows.
NextRowLoss ==
    \/ Reply
    \/ \E e \in Emails, p \in Passwords, s \in Salts : signup(e, p, s)
    \/ \E e \in Emails : request_email(e)
    \/ \E e \in Emails : request_reset_password(e)
    \/ \E m \in mailq, d \in BOOLEAN : send_email(m, d)
    \/ \E t \in Presentable : confirmed_email(t)
    \/ \E t \in Presentable, p1, p2 \in Passwords, s \in Salts :
           reset_password(t, p1, p2, s)
    \/ \E e \in Emails : drop_all(e)

SpecRowLoss == Init /\ [][NextRowLoss]_vars

\* ------------------------------------- routes/auth.py on several workers
\* Every worker process serves one request at a time and has its own database
\* session: what one handler has read is a snapshot, and each commit is a
\* step of its own between which the other workers run.
MaxDone == 3

Busy == {w \in Workers : work[w].pc # "idle"}

Outcome(op, w, status) ==
    [op |-> op, worker |-> w, status |-> status,
     email |-> None, token |-> None, tokens |-> NoTokens]

\* POST /auth/signup, line 49: the lookup of the address.
SignupRead(w, email, password, salt) ==
    /\ work[w].pc = "idle"
    /\ Len(done) + Cardinality(Busy) < MaxDone
    /\ work' = [work EXCEPT ![w] =
                    [pc |-> "signup",
                     body |-> Some([email |-> email, password |-> password,
                                    salt |-> salt]),
                     token |-> None,
                     seen |-> get_user_by_email(email, users)]]
    /\ UNCHANGED <<authVars, limiterVars, contactVars, done>>

\* POST /auth/signup, lines 50-63: the test of what was read, and the INSERT,
\* which the unique index on users.email refuses for an address that has a row.
SignupWrite(w) ==
    /\ work[w].pc = "signup"
    /\ LET body == work[w].body[1]
           exist_user == work[w].seen
           row == [email |-> body.email,
                   password |-> get_password_hash(body.password, body.salt)]
           answer(status) ==
               done' = Append(done, [Outcome("signup", w, status)
                                        EXCEPT !.email = Some(body.email)])
       IN IF exist_user # None
          THEN answer(409) /\ UNCHANGED <<users, mailq>>
          ELSE IF body.email \in DOMAIN users
          THEN answer(500) /\ UNCHANGED <<users, mailq>>
          ELSE /\ users' = create_user(row, users)
               /\ Cardinality(DOMAIN users') <= MaxUsers
               /\ mailq' = mailq \cup {[to |-> body.email, kind |-> "confirm"]}
               /\ Cardinality(mailq') <= MaxMail
               /\ answer(201)
    /\ work' = [work EXCEPT ![w] = IdleWork]
    /\ written' = Stamp
    /\ UNCHANGED <<now, ticks, cache, issued, req, resp>>
    /\ UNCHANGED <<limiterVars, contactVars>>

\* GET /auth/refresh_token, lines 165-167: decoding and the lookup of the row.
\* A token that does not decode is refused before anything is read.
RefreshRead(w, token) ==
    /\ work[w].pc = "idle"
    /\ Len(done) + Cardinality(Busy) < MaxDone
    /\ decode_refresh_token(token, now) = "ok"
    /\ work' = [work EXCEPT ![w] =
                    [pc |-> "refresh_token", body |-> None,
                     token |-> Some(token),
                     seen |-> get_user_by_email(token.claims.sub, users)]]
    /\ UNCHANGED <<authVars, limiterVars, contactVars, done>>

\* GET /auth/refresh_token, lines 168-181: the comparison with the value that
\* was read, and the UPDATE of the row.
RefreshWrite(w) ==
    /\ work[w].pc = "refresh_token"
    /\ LET token == work[w].token[1]
           email == token.claims.sub
           user == work[w].seen
           access_token == create_access_token([sub |-> email], None, now)
           new_refresh == create_refresh_token([sub |-> email], None, now)
           answer(status, tokens) ==
               done' = Append(done, [Outcome("refresh_token", w, status)
                                        EXCEPT !.token = Some(token),
                                               !.tokens = tokens])
       IN IF user = None \/ email \notin DOMAIN users
          THEN answer(500, NoTokens) /\ UNCHANGED <<users, issued>>
          ELSE IF user[1].refresh_token # Some(token)
          THEN /\ users' = update_token(user[1], None, users)
               /\ answer(401, NoTokens)
               /\ UNCHANGED issued
          ELSE /\ users' = update_token(user[1], Some(new_refresh), users)
               /\ issued' = issued \cup {access_token, new_refresh}
               /\ Cardinality(issued') <= MaxIssued
               /\ answer(200, <<access_token, new_refresh>>)
    /\ work' = [work EXCEPT ![w] = IdleWork]
    /\ written' = Stamp
    /\ UNCHANGED <<now, ticks, cache, mailq, req, resp>>
    /\ UNCHANGED <<limiterVars, contactVars>>

NextWorkers ==
    \/ Reply
    \/ \E w \in Workers, e \in Emails, p \in Passwords, s \in Salts :
          SignupRead(w, e, p, s)
    \/ \E w \in Workers : SignupWrite(w)
    \/ \E m \in mailq, d \in BOOLEAN : send_email(m, d)
    \/ \E t \in Presentable : confirmed_email(t)
    \/ \E e \in Emails, p \in Passwords : login(e, p)
    \/ \E w \in Workers, t \in Presentable : RefreshRead(w, t)
    \/ \E w \in Workers : RefreshWrite(w)
    \/ \E d \in TimeJumps : Tick(d)

SpecWorkers == Init /\ [][NextWorkers]_vars

\* ------------------------------------------------- repository/contacts.py
MaxContacts == 3

ContactIds == 1..MaxContacts

ContactEmails == {"c1@x.com", "c2@x.com"}

\* The bodies of create and update requests (ContactModel).
ContactBodies ==
    {[first_name |-> "Ann", last_name |-> "Lee", email |-> "c1@x.com",
      birthday |-> <<1990, 6, 12>>],
     [first_name |-> "Bob", last_name |-> "Ray", email |-> "c2@x.com",
      birthday |-> <<2000, 2, 29>>]}

\* The row of a contact: the columns of the body and the owner.
Row(body, user) ==
    [first_name |-> body.first_name, last_name |-> body.last_name,
     email |-> body.email, birthday |-> body.birthday, user |-> user]

Engines == {"postgresql", "sqlite"}

\* Contact.id, an Integer primary key: the next value of the sequence on
\* PostgreSQL, one more than the largest id of the table on SQLite.
new_id(db, seq, e) ==
    IF e = "postgresql" THEN seq
    ELSE IF DOMAIN db = {} THEN 1
    ELSE (CHOOSE m \in DOMAIN db : \A i \in DOMAIN db : i <= m) + 1

\* Contact.email is unique in the table.
email_taken(email, db, self) ==
    \E i \in DOMAIN db \ self : db[i].email = email

repo_get_contact(contact_id, user, db) ==
    IF contact_id \in DOMAIN db /\ db[contact_id].user = user
    THEN Some(db[contact_id])
    ELSE None

repo_create_contact(body, user, id, db) ==
    IF email_taken(body.email, db, {})
    THEN [error |-> TRUE, db |-> db]
    ELSE [error |-> FALSE, db |-> (id :> Row(body, user)) @@ db]

repo_update_contact(body, contact_id, user, db) ==
    IF contact_id \in DOMAIN db /\ db[contact_id].user = user
    THEN IF email_taken(body.email, db, {contact_id})
         THEN [error |-> TRUE, contact |-> None, db |-> db]
         ELSE [error |-> FALSE, contact |-> Some(contact_id),
               db |-> [db EXCEPT ![contact_id] = Row(body, user)]]
    ELSE [error |-> FALSE, contact |-> None, db |-> db]

repo_remove_contact_any(contact_id, user, db) ==
    IF contact_id \in DOMAIN db
    THEN [contact |-> Some(contact_id),
          db |-> [i \in DOMAIN db \ {contact_id} |-> db[i]]]
    ELSE [contact |-> None, db |-> db]

repo_remove_contact(contact_id, user, db) ==
    IF contact_id \in DOMAIN db /\ db[contact_id].user = user
    THEN [contact |-> Some(contact_id),
          db |-> [i \in DOMAIN db \ {contact_id} |-> db[i]]]
    ELSE [contact |-> None, db |-> db]

\* ----------------------------------------------------- routes/contacts.py
\* The handlers below run after get_current_user has resolved current_user.
\* POST /contacts/
create_contact(body, current_user) ==
    /\ Ready
    /\ LET id == new_id(contacts, nextid, engine)
           out == repo_create_contact(body, current_user, id, contacts)
       IN /\ id <= MaxContacts
          /\ contacts' = out.db
          /\ nextid' = IF engine = "postgresql" THEN nextid + 1 ELSE nextid
          /\ resp' = IF out.error
                     THEN Response("create_contact", 500, "IntegrityError")
                     ELSE Response("create_contact", 200, "")
    /\ UNCHANGED <<now, ticks, users, cache, issued, mailq, req, written>>
    /\ UNCHANGED <<engine, removed, today, found, limiterVars, raceVars>>

\* GET /contacts/{contact_id}
get_contact(contact_id, current_user) ==
    /\ Ready
    /\ LET contact == repo_get_contact(contact_id, current_user, contacts)
       IN resp' = IF contact = None
                  THEN Response("get_contact", 404, "Contact not found")
                  ELSE Response("get_contact", 200, "")
    /\ UNCHANGED <<now, ticks, users, cache, issued, mailq, req, written>>
    /\ UNCHANGED otherVars

\* PUT /contacts/{contact_id}
update_contact(body, contact_id, current_user) ==
    /\ Ready
    /\ LET out == repo_update_contact(body, contact_id, current_user, contacts)
       IN /\ contacts' = out.db
          /\ resp' = IF out.error
                     THEN Response("update_contact", 500, "IntegrityError")
                     ELSE IF out.contact = None
                     THEN Response("update_contact", 404, "Contact not found")
                     ELSE Response("update_contact", 200, "")
    /\ UNCHANGED <<now, ticks, users, cache, issued, mailq, req, written>>
    /\ UNCHANGED <<nextid, engine, removed, today, found, limiterVars, raceVars>>

\* DELETE /contacts/{contact_id}
remove_contact(contact_id, current_user) ==
    /\ Ready
    /\ LET out == repo_remove_contact(contact_id, current_user, contacts)
       IN /\ contacts' = out.db
          /\ removed' = IF out.contact = None THEN removed
                        ELSE removed \cup {<<current_user, contact_id>>}
          /\ resp' = IF out.contact = None
                     THEN Response("remove_contact", 404, "Contact not found")
                     ELSE Response("remove_contact", 200, "")
    /\ UNCHANGED <<now, ticks, users, cache, issued, mailq, req, written>>
    /\ UNCHANGED <<nextid, engine, today, found, limiterVars, raceVars>>

InitContacts == \E e \in Engines : InitOn(e)

NextContacts ==
    \/ Reply
    \/ \E b \in ContactBodies, u \in Emails : create_contact(b, u)
    \/ \E c \in ContactIds, u \in Emails : get_contact(c, u)
    \/ \E b \in ContactBodies, c \in ContactIds, u \in Emails :
          update_contact(b, c, u)
    \/ \E c \in ContactIds, u \in Emails : remove_contact(c, u)

SpecContacts == InitContacts /\ [][NextContacts]_vars

\* ------------------------------------- repository/contacts.py, the queries
MaxRows == 2

FirstNames == {"Ann", "Bob"}

LastNames == {"Lee", "Ray"}

\* The tables of at most MaxRows rows with ids 1, 2, ... and distinct emails.
Tables(rows) ==
    UNION {{t \in [1..n -> rows] :
               \A i, j \in 1..n : t[i].email = t[j].email => i = j}
           : n \in 0..MaxRows}

SearchRows ==
    [first_name : FirstNames, last_name : LastNames, email : ContactEmails,
     birthday : {<<1990, 6, 12>>}, user : Emails]

\* A query parameter: absent, the empty string, or a value.
Filters(values) == {None, Some("")} \cup {Some(v) : v \in values}

\* Python's truth value of an Optional[str].
Given(value) == value # None /\ value[1] # ""

\* Mutant: a row is returned when it matches any one of the filters.
repo_search_contacts_any(first_name, last_name, email, user, db) ==
    {i \in DOMAIN db :
        /\ db[i].user = user
        /\ \/ ~Given(first_name) /\ ~Given(last_name) /\ ~Given(email)
           \/ Given(first_name) /\ db[i].first_name = first_name[1]
           \/ Given(last_name) /\ db[i].last_name = last_name[1]
           \/ Given(email) /\ db[i].email = email[1]}

repo_search_contacts(first_name, last_name, email, user, db) ==
    LET q0 == {i \in DOMAIN db : db[i].user = user}
        q1 == IF Given(first_name)
              THEN {i \in q0 : db[i].first_name = first_name[1]} ELSE q0
        q2 == IF Given(last_name)
              THEN {i \in q1 : db[i].last_name = last_name[1]} ELSE q1
        q3 == IF Given(email)
              THEN {i \in q2 : db[i].email = email[1]} ELSE q2
    IN q3

\* GET /contacts/search
search_contacts(first_name, last_name, email, current_user) ==
    /\ Ready
    /\ found' = Some(repo_search_contacts(first_name, last_name, email,
                                          current_user, contacts))
    /\ resp' = Response("search_contacts", 200, "")
    /\ UNCHANGED <<now, ticks, users, cache, issued, mailq, req, written>>
    /\ UNCHANGED <<contacts, nextid, engine, removed, today>>
    /\ UNCHANGED <<limiterVars, raceVars>>

InitSearch == \E t \in Tables(SearchRows) : InitWith("postgresql", t, Epoch)

NextSearch ==
    \/ Reply
    \/ \E f \in Filters(FirstNames), l \in Filters(LastNames),
          e \in Filters(ContactEmails), u \in Emails :
          search_contacts(f, l, e, u)

SpecSearch == InitSearch /\ [][NextSearch]_vars

\* Calendar dates are <<year, month, day>>.
IsLeap(y) == (y % 4 = 0 /\ y % 100 # 0) \/ y % 400 = 0

DaysInMonth(y, m) ==
    IF m = 2 THEN (IF IsLeap(y) THEN 29 ELSE 28)
    ELSE IF m \in {4, 6, 9, 11} THEN 30
    ELSE 31

NextDay(d) ==
    IF d[3] < DaysInMonth(d[1], d[2]) THEN <<d[1], d[2], d[3] + 1>>
    ELSE IF d[2] < 12 THEN <<d[1], d[2] + 1, 1>>
    ELSE <<d[1] + 1, 1, 1>>

\* d + timedelta(days=k)
RECURSIVE AddDays(_, _)
AddDays(d, k) == IF k = 0 THEN d ELSE AddDays(NextDay(d), k - 1)

\* a <= b on dates
DateLe(a, b) ==
    \/ a[1] < b[1]
    \/ a[1] = b[1] /\ a[2] < b[2]
    \/ a[1] = b[1] /\ a[2] = b[2] /\ a[3] <= b[3]

\* date.replace(year=...) raises ValueError when the day is not in that year.
date_replace_ok(d, year) == d[3] <= DaysInMonth(year, d[2])

date_replace(d, year) == <<year, d[2], d[3]>>

repo_get_upcoming_birthdays(user, db, t) ==
    LET mine == {i \in DOMAIN db : db[i].user = user}
        upcoming(i) ==
            LET birthday == date_replace(db[i].birthday, t[1])
            IN DateLe(t, birthday) /\ DateLe(birthday, AddDays(t, 7))
    IN IF \E i \in mine : ~date_replace_ok(db[i].birthday, t[1])
       THEN [error |-> TRUE, result |-> {}]
       ELSE [error |-> FALSE, result |-> {i \in mine : upcoming(i)}]

\* GET /contacts/upcoming_birthdays
get_upcoming_birthdays(current_user) ==
    /\ Ready
    /\ LET out == repo_get_upcoming_birthdays(current_user, contacts, today)
       IN IF out.error
          THEN /\ resp' = Response("get_upcoming_birthdays", 500, "ValueError")
               /\ found' = None
          ELSE /\ resp' = Response("get_upcoming_birthdays", 200, "")
               /\ found' = Some(out.result)
    /\ UNCHANGED <<now, ticks, users, cache, issued, mailq, req, written>>
    /\ UNCHANGED <<contacts, nextid, engine, removed, today>>
    /\ UNCHANGED <<limiterVars, raceVars>>

TodayDates == {<<2023, 12, 28>>, <<2023, 2, 25>>, <<2024, 2, 25>>, <<2024, 6, 10>>}

Birthdays ==
    {<<2000, 2, 29>>, <<2001, 1, 2>>, <<1990, 12, 30>>, <<1990, 6, 12>>,
     <<1995, 3, 3>>}

BirthdayRows ==
    [first_name : {"Ann"}, last_name : {"Lee"}, email : ContactEmails,
     birthday : Birthdays, user : Emails]

InitBirthdays ==
    \E t \in Tables(BirthdayRows), d \in TodayDates :
        InitWith("postgresql", t, d)

NextBirthdays ==
    \/ Reply
    \/ \E u \in Emails : get_upcoming_birthdays(u)

SpecBirthdays == InitBirthdays /\ [][NextBirthdays]_vars

TypeOK ==
    /\ now \in Nat
    /\ ticks \in 0..(MaxTicks + MaxWaits)
    /\ DOMAIN users \subseteq Emails
    /\ DOMAIN cache \subseteq Emails
    /\ Cardinality(issued) <= MaxIssued
    /\ DOMAIN written = DOMAIN users
    /\ Len(calls) <= MaxCalls
    /\ DOMAIN contacts \subseteq ContactIds
    /\ engine \in Engines
    /\ removed \subseteq Emails \X ContactIds
    /\ Len(done) + Cardinality(Busy) <= MaxDone
    /\ \A k \in DOMAIN limiter : limiter[k].count >= 1 /\ limiter[k].exp > now

\* ------------------------------------------------------------------ properties
\* Claims of a token, read without raising on a missing key.
Scope(token) ==
    IF "scope" \in DOMAIN token.claims THEN token.claims.scope ELSE "absent"

Unexpired(token) == token.claims.exp >= now

StoredToken(email) == users[email].refresh_token

\* C1: login returns a token pair only if the identity exists, is confirmed
\* and the submitted password is the one the stored credential was hashed
\* from; otherwise it answers 401 with the message of the first failed test,
\* issues nothing and leaves the stored refresh token as it was.
C1_LoginGate ==
    [][\A e \in Emails, p \in Passwords :
        login(e, p) =>
          LET exists == e \in DOMAIN users
              confirmed == exists /\ users[e].confirmed
              matches == confirmed /\ users[e].password.bcrypt = p
          IN /\ resp'.op = "login"
             /\ (resp'.status = 200) = matches
             /\ matches => /\ Len(resp'.tokens) = 2
                           /\ Scope(resp'.tokens[1]) = "access_token"
                           /\ Scope(resp'.tokens[2]) = "refresh_token"
             /\ ~matches => /\ resp'.status = 401
                            /\ resp'.tokens = NoTokens
                            /\ issued' = issued
                            /\ users' = users
             /\ ~exists => resp'.detail = "Invalid email"
             /\ (exists /\ ~confirmed) => resp'.detail = "Email not confirmed"
             /\ (confirmed /\ ~matches) => resp'.detail = "Invalid password"]_vars

\* A login was refused for an identity that exists but is not confirmed.
C1_Witness ==
    /\ resp.op = "login"
    /\ resp.detail = "Email not confirmed"
    /\ \E e \in DOMAIN users : ~users[e].confirmed

\* C2: after a successful refresh the presented refresh token differs from
\* the stored one, whenever the refresh happens.
C2_RefreshRotates ==
    [][\A t \in Presentable :
        (refresh_token(t) /\ resp'.status = 200) =>
            users'[t.claims.sub].refresh_token # Some(t)]_vars

\* C3: a signed, unexpired refresh-scoped token that differs from the stored
\* value is answered 401, issues nothing and nulls the stored value; while the
\* stored value is null every refresh for that identity is answered 401 and
\* only a successful login makes it non-null again.
C3_Lockout ==
    [][/\ \A t \in Presentable :
            (/\ refresh_token(t)
             /\ t.signed /\ Unexpired(t) /\ Scope(t) = "refresh_token"
             /\ StoredToken(t.claims.sub) # Some(t))
            => /\ resp'.status = 401
               /\ resp'.tokens = NoTokens
               /\ issued' = issued
               /\ users'[t.claims.sub].refresh_token = None
       /\ \A e \in DOMAIN users :
            (StoredToken(e) = None /\ users'[e].refresh_token # None)
            => /\ resp'.op = "login"
               /\ resp'.status = 200
               /\ resp'.tokens[2].claims.sub = e]_vars

\* A refresh was refused for a mismatch and left the identity locked out.
C3_Witness ==
    /\ resp.op = "refresh_token"
    /\ resp.detail = "Invalid refresh token"
    /\ \E e \in DOMAIN users : users[e].confirmed /\ StoredToken(e) = None

\* C4: after a successful login or refresh the stored refresh token of the
\* identity is the refresh token of that response.
C4_StoredIsReturned ==
    (resp.op \in {"login", "refresh_token"} /\ resp.status = 200)
    => /\ resp.tokens[2].claims.sub \in DOMAIN users
       /\ StoredToken(resp.tokens[2].claims.sub) = Some(resp.tokens[2])

\* A refresh at a later second replaced the token stored by the login.
C4_Witness ==
    /\ resp.op = "refresh_token"
    /\ resp.status = 200
    /\ resp.tokens[2].claims.iat > 0
    /\ \E t \in issued : /\ Scope(t) = "refresh_token"
                         /\ t.claims.iat < resp.tokens[2].claims.iat

\* C5: a signed, unexpired access token is refused with 401 by the refresh
\* endpoint without any change of state, and a signed, unexpired refresh token
\* is refused with 401 by get_current_user.
C5_ScopeSeparation ==
    [][/\ \A t \in Presentable :
            (/\ refresh_token(t)
             /\ t.signed /\ Unexpired(t) /\ Scope(t) = "access_token")
            => /\ resp'.status = 401
               /\ UNCHANGED <<users, cache, issued, mailq, req>>
       /\ \A r \in Lookups, t \in Presentable :
            (/\ GcuBegin(r, t)
             /\ t.signed /\ Unexpired(t) /\ Scope(t) = "refresh_token")
            => /\ resp' = credentials_exception
               /\ UNCHANGED <<users, cache, issued, mailq, req>>]_vars

\* The refresh endpoint refused a token for its scope.
C5_Witness ==
    /\ resp.op = "refresh_token"
    /\ resp.status = 401
    /\ resp.detail = "Invalid scope for token"

\* C6: confirmed_email and reset_password refuse a signed access-scoped or
\* refresh-scoped token and change neither the confirmed flag nor the stored
\* credential.
C6_EmailScopeOnly ==
    [][\A t \in Presentable :
        (/\ t.signed /\ Scope(t) \in {"access_token", "refresh_token"}
         /\ \/ confirmed_email(t)
            \/ \E p1, p2 \in Passwords, s \in Salts : reset_password(t, p1, p2, s))
        => /\ resp'.status >= 400
           /\ users' = users]_vars

\* C7: every bearer that is not a signed, unexpired, access-scoped token with
\* a subject ends get_current_user in the 401 credentials error, with the
\* cache and persistence untouched.
C7_AlwaysUnauthorized ==
    [][\A r \in Lookups, t \in Presentable :
        (/\ GcuBegin(r, t)
         /\ ~(/\ t.signed /\ Unexpired(t) /\ Scope(t) = "access_token"
              /\ "sub" \in DOMAIN t.claims))
        => /\ resp' = credentials_exception
           /\ UNCHANGED <<users, cache, req>>]_vars

\* C8 as stated: an issued access token is accepted while now < exp and
\* refused with 401 once now >= exp.
C8_ExpiryAtOrAfter ==
    [][\A r \in Lookups, t \in issued :
        (GcuBegin(r, t) /\ Scope(t) = "access_token")
        => IF now < t.claims.exp
           THEN /\ req'[r].pc = "get"
                /\ req'[r].email = Some(t.claims.sub)
           ELSE resp' = credentials_exception /\ req' = req]_vars

\* C8 amended: an issued access token is accepted, with its subject, while
\* now <= exp and refused with 401 once now > exp.
C8_ExpiryAfter ==
    [][\A r \in Lookups, t \in issued :
        (GcuBegin(r, t) /\ Scope(t) = "access_token")
        => IF now <= t.claims.exp
           THEN /\ req'[r].pc = "get"
                /\ req'[r].email = Some(t.claims.sub)
                /\ t.claims.sub \in DOMAIN users
                /\ UNCHANGED resp
           ELSE resp' = credentials_exception /\ req' = req]_vars

\* A lookup was admitted in the very second its access token expires.
C8_Witness ==
    \E r \in Lookups, t \in issued :
        /\ Scope(t) = "access_token"
        /\ t.claims.exp = now
        /\ req[r].pc = "get"
        /\ req[r].email = Some(t.claims.sub)

C10_CacheOutageTolerated ==
    [][\A r \in Lookups :
        GcuCacheDown(r) => /\ resp'.status = 200
                           /\ resp'.user # None
                           /\ resp'.user[1].email = req[r].email[1]]_vars

\* C11: a lookup that is answered more than 120 seconds after the last commit
\* to the row of its identity returns the row as that commit left it.
C11_CoherenceBound ==
    [][\A r \in Lookups :
        LET email == req[r].email[1]
        IN (/\ GcuCacheGet(r)
            /\ resp'.status = 200
            /\ email \in DOMAIN users
            /\ now > written[email] + CACHE_EXPIRE)
           => resp'.user = Some(users[email])]_vars

\* A token whose signature verifies and whose exp has not passed.
Valid(token) == token.signed /\ Unexpired(token)

\* C12: signup for an email that has an identity answers 409 and changes
\* nothing (no row, no credential, no queued email); signup for a new email
\* answers 201 and adds exactly that identity, unconfirmed and without a stored
\* refresh token, leaving every other row as it was.
C12_SignupConflict ==
    [][\A e \in Emails, p \in Passwords, s \in Salts :
        signup(e, p, s) =>
          IF e \in DOMAIN users
          THEN /\ resp' = Response("signup", 409, "Account already exists")
               /\ UNCHANGED <<users, cache, issued, mailq, req>>
          ELSE /\ resp'.status = 201
               /\ DOMAIN users' = DOMAIN users \cup {e}
               /\ \A o \in DOMAIN users : users'[o] = users[o]
               /\ users'[e].email = e
               /\ users'[e].confirmed = FALSE
               /\ users'[e].refresh_token = None]_vars

\* A signup was refused because the address already has an identity.
C12_Witness ==
    /\ resp.op = "signup"
    /\ resp.status = 409
    /\ DOMAIN users # {}

\* C13: after a successful signup or reset with password p the stored
\* credential is a bcrypt hash (never the plaintext) that p and only p
\* verifies against; a login for the confirmed identity succeeds exactly with
\* that password and is answered 401 with any other, so a password replaced
\* by a reset no longer logs in.
C13_PasswordRoundTrip ==
    [][/\ resp'.status = 201
          => \A e \in Emails, p \in Passwords, s \in Salts :
               signup(e, p, s)
               => /\ DOMAIN users'[e].password = {"bcrypt", "salt"}
                  /\ users'[e].password.bcrypt = p
       /\ resp'.detail = "Password reset successfully"
          => \A t \in Presentable, p1, p2 \in Passwords, s \in Salts :
               reset_password(t, p1, p2, s)
               => /\ DOMAIN users'[t.claims.sub].password = {"bcrypt", "salt"}
                  /\ users'[t.claims.sub].password.bcrypt = p1
       /\ resp'.op = "login"
          => \A e \in Emails, q \in Passwords :
               (e \in DOMAIN users /\ users[e].confirmed /\ login(e, q))
               => IF users[e].password.bcrypt = q
                  THEN resp'.status = 200
                  ELSE resp'.status = 401 /\ resp'.tokens = NoTokens]_vars

\* A login succeeded with a credential that a reset wrote after an earlier
\* lookup had cached the identity with its former credential.
C13_Witness ==
    /\ resp.op = "login"
    /\ resp.status = 200
    /\ \E k \in DOMAIN cache :
          /\ k \in DOMAIN users
          /\ cache[k].snap.password # users[k].password
          /\ resp.tokens[2].claims.sub = k

\* C14: confirmed_email with a valid token of a confirmed identity answers
\* "already confirmed" and changes nothing; for an unconfirmed identity it
\* sets confirmed and nothing else.
C14_ConfirmIdempotent ==
    [][\A t \in Presentable :
        (/\ confirmed_email(t)
         /\ Valid(t)
         /\ t.claims.sub \in DOMAIN users)
        => LET e == t.claims.sub
           IN IF users[e].confirmed
              THEN /\ resp' = Response("confirmed_email", 200,
                                       "Your email is already confirmed")
                   /\ UNCHANGED <<users, cache, issued, mailq, req>>
              ELSE /\ resp' = Response("confirmed_email", 200, "Email confirmed")
                   /\ users' = [users EXCEPT ![e].confirmed = TRUE]
                   /\ UNCHANGED <<cache, issued, mailq, req>>]_vars

\* A second confirmation of an identity was answered "already confirmed".
C14_Witness ==
    /\ resp.op = "confirmed_email"
    /\ resp.detail = "Your email is already confirmed"
    /\ \E e \in DOMAIN users : users[e].confirmed

\* C15: request_email and request_reset_password answer 200 with the generic
\* message whether or not the address has an identity (request_email answers
\* "already confirmed" for a confirmed one), change no identity and queue an
\* email only for an existing identity.
C15_GenericAnswer ==
    [][\A e \in Emails :
        /\ request_email(e)
           => /\ resp'.status = 200
              /\ IF e \in DOMAIN users /\ users[e].confirmed
                 THEN resp'.detail = "Your email is already confirmed"
                 ELSE resp'.detail = "Check your email for confirmation."
              /\ users' = users
              /\ mailq' # mailq => e \in DOMAIN users
        /\ request_reset_password(e)
           => /\ resp'.status = 200
              /\ resp'.detail = "Check your email for confirmation."
              /\ users' = users
              /\ mailq' # mailq => e \in DOMAIN users]_vars

\* C16: reset_password with a valid token of an existing identity and two
\* different password fields answers 200 "Passwords do not match!" and leaves
\* the row as it is; with equal fields it stores a hash of that password; and
\* nothing else ever changes a stored credential.
C16_ResetMismatch ==
    [][/\ resp'.op = "reset_password"
          => \A t \in Presentable, p1, p2 \in Passwords, s \in Salts :
               (/\ Valid(t)
                /\ t.claims.sub \in DOMAIN users
                /\ reset_password(t, p1, p2, s))
               => IF p1 # p2
                  THEN /\ resp' = Response("reset_password", 200,
                                           "Passwords do not match!")
                       /\ UNCHANGED <<users, cache, issued, mailq, req>>
                  ELSE /\ resp' = Response("reset_password", 200,
                                           "Password reset successfully")
                       /\ users'[t.claims.sub].password.bcrypt = p1
       /\ users' # users
          => \A e \in DOMAIN users \cap DOMAIN users' :
               users'[e].password # users[e].password
               => /\ resp'.op = "reset_password"
                  /\ resp'.detail = "Password reset successfully"]_vars

\* A reset with two different fields was answered 200 and the identity still
\* has the credential it had.
C16_Witness ==
    /\ resp.op = "reset_password"
    /\ resp.status = 200
    /\ resp.detail = "Passwords do not match!"
    /\ DOMAIN users # {}

\* C17: confirmed_email and reset_password with a valid token whose subject
\* has no identity answer 400 and change nothing.
C17_UnresolvedSubject ==
    [][\A t \in Presentable :
        (/\ Valid(t)
         /\ "sub" \in DOMAIN t.claims
         /\ t.claims.sub \notin DOMAIN users)
        => /\ confirmed_email(t)
              => /\ resp' = Response("confirmed_email", 400, "Verification error")
                 /\ UNCHANGED <<users, cache, issued, mailq, req>>
           /\ \A p1, p2 \in Passwords, s \in Salts :
                reset_password(t, p1, p2, s)
                => /\ resp' = Response("reset_password", 400, "Verification error")
                   /\ UNCHANGED <<users, cache, issued, mailq, req>>]_vars

\* A reset was refused with 400 because the subject of its token has no row.
C17_Witness ==
    /\ resp.op = "reset_password"
    /\ resp.status = 400
    /\ users = <<>>
    /\ \E t \in issued : Valid(t)

\* C18: signup for a new email answers 201 with the identity committed and the
\* email task only queued; a queued task always finds its identity committed,
\* and running it, delivered or not, changes no identity and no response.
C18_SendFailureKeepsIdentity ==
    /\ [](\A m \in mailq : m.to \in DOMAIN users)
    /\ [][/\ \A e \in Emails, p \in Passwords, s \in Salts :
                (signup(e, p, s) /\ e \notin DOMAIN users)
                => /\ resp' = Response("signup", 201, "User successfully created")
                   /\ e \in DOMAIN users'
                   /\ [to |-> e, kind |-> "confirm"] \in mailq'
           /\ \A m \in mailq, d \in BOOLEAN :
                send_email(m, d) => users' = users /\ resp' = resp]_vars

\* The confirmation email of a signup was not delivered (no token ever reached
\* anyone) and the identity is there.
C18_Witness ==
    /\ DOMAIN users # {}
    /\ mailq = {}
    /\ issued = {}
    /\ Ready

\* The decisions taken for one key, oldest first.
KeyCalls(key) == SelectSeq(calls, LAMBDA x : x.key = key)

\* Start of the fixed window the i-th call of a log falls into: the window of
\* the call before it while that window lasts, else the time of the call.
RECURSIVE WindowStart(_, _, _)
WindowStart(log, i, seconds) ==
    IF i = 1 THEN log[1].t
    ELSE LET s == WindowStart(log, i - 1, seconds)
         IN IF log[i].t < s + seconds THEN s ELSE log[i].t

\* The calls of a log, up to the i-th, that fall into the window of the i-th.
SameWindow(log, i, seconds) ==
    {j \in 1..i : WindowStart(log, j, seconds) = WindowStart(log, i, seconds)}

\* C19: on the list route (5 per 60 s) and for each client, the first 5 calls
\* of a window are allowed and every further call of it is answered 429; the
\* window ends 60 s after its first call whatever was rejected in between, and
\* the first call after that is allowed and starts a window with count 1.
C19_FixedWindow ==
    \A a \in Clients :
        LET key == limiter_key(a, "get_contacts")
            log == KeyCalls(key)
            n == Len(log)
        IN /\ \A i \in 1..n :
                log[i].status =
                    IF Cardinality(SameWindow(log, i, 60)) <= 5 THEN 200 ELSE 429
           /\ key \in DOMAIN limiter
              => /\ n > 0
                 /\ limiter[key].exp = WindowStart(log, n, 60) + 60
                 /\ Cardinality(SameWindow(log, n, 60)) = 1
                    => limiter[key].count = 1

\* Five calls were allowed, a sixth was answered 429, and a call 61 s after
\* the first was allowed and started a new window.
C19_Witness ==
    \E a \in Clients :
        LET key == limiter_key(a, "get_contacts")
            log == KeyCalls(key)
        IN /\ Len(log) = 7
           /\ log[5].status = 200
           /\ log[6].status = 429
           /\ log[6].t > log[1].t
           /\ log[7].status = 200
           /\ log[7].t = log[1].t + 61
           /\ key \in DOMAIN limiter
           /\ limiter[key].count = 1

\* C20: whatever the order in which Redis takes the script calls of requests
\* that are in flight together, no window of a key has more allowed calls than
\* the times of its route, and the counter of a live key is exactly the
\* number of calls allowed in its window (no update is lost).
C20_AtomicQuota ==
    \A a \in Clients, route \in Limited :
        LET key == limiter_key(a, route)
            log == KeyCalls(key)
            lim == RateLimits[route]
            allowed(i) == {j \in 1..Len(log) :
                             /\ log[j].status = 200
                             /\ WindowStart(log, j, lim.seconds)
                                  = WindowStart(log, i, lim.seconds)}
        IN /\ \A i \in 1..Len(log) : Cardinality(allowed(i)) <= lim.times
           /\ key \in DOMAIN limiter
              => limiter[key].count = Cardinality(allowed(Len(log)))

\* The last free place of a window was taken while another request for the
\* same key was in flight, and the call Redis took next was answered 429.
C20_Witness ==
    \E i \in 1..(Len(calls) - 1) :
        /\ calls[i].status = 200
        /\ calls[i].overlap
        /\ calls[i + 1].status = 429
        /\ calls[i + 1].key = calls[i].key
        /\ calls[i + 1].t = calls[i].t
        /\ calls[i].key \in DOMAIN limiter
        /\ limiter[calls[i].key].count = RateLimits[calls[i].route].times

\* C24: every identity key of the cache has an expiry, at most 120 seconds
\* ahead, in every state, the states between the steps of a lookup included.
C24_AlwaysTtl ==
    \A k \in DOMAIN cache :
        /\ cache[k].ttl # None
        /\ cache[k].ttl[1] <= now + CACHE_EXPIRE

\* C26: a signed access token with a subject is admitted from its issue up
\* to its exp whatever the stored refresh token of its identity is, and the
\* lookup it starts resolves the identity whenever the cache or the table has
\* it.
C26_NoRevocation ==
    [][\A r \in Lookups :
        /\ \A t \in issued :
             (/\ GcuBegin(r, t)
              /\ Scope(t) = "access_token"
              /\ ~(t.claims.exp < now))
             => /\ req'[r].pc = "get"
                /\ req'[r].email = Some(t.claims.sub)
                /\ UNCHANGED resp
        /\ (GcuCacheGet(r) /\ req[r].email[1] \in DOMAIN users \cup DOMAIN cache)
           => \/ resp'.status = 200 /\ resp'.user[1].email = req[r].email[1]
              \/ req'[r].pc = "set" /\ req'[r].user = Some(users[req[r].email[1]])
        /\ GcuCacheExpire(r)
           => resp'.status = 200 /\ resp'.user = req[r].user]_vars

\* A lookup was admitted at a later second than its access token was issued
\* while the identity is locked out (no stored refresh token).
C26_Witness ==
    \E r \in Lookups, t \in issued :
        /\ Scope(t) = "access_token"
        /\ t.claims.iat < now
        /\ req[r].pc = "get"
        /\ req[r].email = Some(t.claims.sub)
        /\ t.claims.sub \in DOMAIN users
        /\ users[t.claims.sub].confirmed
        /\ StoredToken(t.claims.sub) = None

C27_ExpiryArithmetic ==
    [][\A e \in Emails :
        /\ \A d \in Deltas :
             /\ call_create_access_token(e, d)
                => LET c == resp'.tokens[1].claims
                   IN /\ c.iat = now
                      /\ c.exp = c.iat + (IF d = None THEN 15 * 60 ELSE d[1])
                      /\ c.sub = e
                      /\ "scope" \in DOMAIN c /\ c.scope = "access_token"
             /\ call_create_refresh_token(e, d)
                => LET c == resp'.tokens[1].claims
                   IN /\ c.iat = now
                      /\ c.exp = c.iat + (IF d = None THEN 7 * 24 * 60 * 60
                                          ELSE d[1])
                      /\ c.sub = e
                      /\ "scope" \in DOMAIN c /\ c.scope = "refresh_token"
        /\ call_create_email_token(e)
           => LET c == resp'.tokens[1].claims
              IN /\ c.iat = now
                 /\ c.exp = c.iat + 7 * 24 * 60 * 60
                 /\ c.sub = e
                 /\ "scope" \in DOMAIN c]_vars

\* C25: no step that changes a row changes the cache; the cache changes only
\* in the r.set and r.expire of a lookup and by keys expiring, and a snapshot
\* is stored or replaced only by the r.set of a lookup that missed, under the
\* email of that lookup.
C25_WritesSkipCache ==
    [][/\ users' # users => cache' = cache
       /\ cache' # cache
          => \/ \E r \in Lookups : GcuCacheSet(r) \/ GcuCacheExpire(r)
             \/ \E d \in TimeJumps : Tick(d)
       /\ \A k \in DOMAIN cache' :
            (k \notin DOMAIN cache \/ cache'[k].snap # cache[k].snap)
            => \E r \in Lookups : /\ req[r].pc = "set"
                                  /\ req[r].email = Some(k)
                                  /\ req'[r].pc = "expire"
                                  /\ cache'[k].snap = req[r].user[1]]_vars

\* A lookup was answered from the cache, within the life of the entry, with a
\* snapshot taken before the avatar and the credential of the row were written.
C25_Witness ==
    /\ resp.op = "get_current_user"
    /\ resp.status = 200
    /\ \A r \in Lookups : req[r].pc = "idle"
    /\ \E k \in DOMAIN cache \cap DOMAIN users :
          /\ cache[k].ttl # None
          /\ cache[k].ttl[1] < now + CACHE_EXPIRE
          /\ resp.user = Some(cache[k].snap)
          /\ cache[k].snap.avatar # users[k].avatar
          /\ cache[k].snap.password # users[k].password

\* The decisions taken for one client on one route, oldest first.
RouteCalls(client, route) ==
    SelectSeq(calls, LAMBDA x : x.route = route /\ x.key[1] = client)

\* C21: the routes carry the quotas list 5/60, read 10/60, create 2/180,
\* update 5/120, delete 5/60, and the calls of a client to a route are decided
\* by a fixed window over the calls of that client to that route alone.
C21_OwnCounter ==
    /\ RateLimits.get_contacts = [times |-> 5, seconds |-> 60]
    /\ RateLimits.get_contact = [times |-> 10, seconds |-> 60]
    /\ RateLimits.create_contact = [times |-> 2, seconds |-> 180]
    /\ RateLimits.update_contact = [times |-> 5, seconds |-> 120]
    /\ RateLimits.remove_contact = [times |-> 5, seconds |-> 60]
    /\ \A a \in QuotaClients, route \in QuotaRoutes :
         LET log == RouteCalls(a, route)
             lim == RateLimits[route]
         IN \A i \in 1..Len(log) :
              log[i].status =
                  IF Cardinality(SameWindow(log, i, lim.seconds)) <= lim.times
                  THEN 200 ELSE 429

\* C22: of the create requests of one client, at most 2 are allowed in any
\* period of 300 seconds; the others are answered 429.
C22_CreatePerFiveMinutes ==
    \A a \in QuotaClients :
        LET log == RouteCalls(a, "create_contact")
        IN \A i \in 1..Len(log) :
             /\ log[i].status \in {200, 429}
             /\ Cardinality({j \in i..Len(log) :
                                /\ log[j].status = 200
                                /\ log[j].t < log[i].t + 300}) <= 2

\* The contact with this id is one of the user's contacts.
Owned(user, contact_id) ==
    contact_id \in DOMAIN contacts /\ contacts[contact_id].user = user

\* A get, update or delete of an id that is not among the current user's
\* contacts answers 404 'Contact not found' and changes no row.
NotFound ==
    \A u \in Emails, c \in ContactIds :
        /\ resp'.op = "get_contact" /\ get_contact(c, u) /\ ~Owned(u, c)
             => /\ resp'.status = 404 /\ resp'.detail = "Contact not found"
                /\ contacts' = contacts
        /\ resp'.op = "remove_contact" /\ remove_contact(c, u) /\ ~Owned(u, c)
             => /\ resp'.status = 404 /\ resp'.detail = "Contact not found"
                /\ contacts' = contacts
        /\ \A b \in ContactBodies :
             resp'.op = "update_contact" /\ update_contact(b, c, u) /\ ~Owned(u, c)
             => /\ resp'.status = 404 /\ resp'.detail = "Contact not found"
                /\ contacts' = contacts

\* C23 as stated: requests for an id that is not among the current user's
\* contacts answer 404 and change nothing, and an id the user has deleted with
\* success is never again among that user's contacts.
C23_DeletedIdStaysGone ==
    /\ [][NotFound]_vars
    /\ [](\A p \in removed : ~Owned(p[1], p[2]))

\* C23 (corrected): requests for an id that is not among the current user's
\* contacts answer 404 and change nothing; a successful delete of id c leaves
\* no contact with id c, and only a later create_contact can bring a contact
\* with that id into being.
C23_Confined ==
    [][/\ NotFound
       /\ \A u \in Emails, c \in ContactIds :
            resp'.op = "remove_contact" /\ remove_contact(c, u)
              /\ resp'.status = 200
            => /\ Owned(u, c)
               /\ c \notin DOMAIN contacts'
               /\ \A i \in DOMAIN contacts' : contacts'[i] = contacts[i]
       /\ (\E c \in DOMAIN contacts' : c \notin DOMAIN contacts)
            => resp'.op = "create_contact" /\ resp'.status = 200]_vars

C23_Witness ==
    /\ resp.op = "get_contact" /\ resp.status = 404
    /\ \E p \in removed : p[2] \notin DOMAIN contacts
    /\ \E c \in DOMAIN contacts, u \in Emails : contacts[c].user # u

\* The completed requests of one kind, oldest first.
Completed(op) == {i \in 1..Len(done) : done[i].op = op}

\* C28: a refresh token value is exchanged with success at most once, however
\* the requests that present it interleave.
C28_ExchangedOnce ==
    \A i, j \in Completed("refresh_token") :
        /\ done[i].status = 200
        /\ done[j].status = 200
        /\ done[i].token = done[j].token
        => i = j

\* C29: of the signup requests for one address, however they interleave, at
\* most one creates the identity and every other one is answered 409.
C29_LoserGetsConflict ==
    /\ \A i \in Completed("signup") : done[i].status \in {201, 409}
    /\ \A i, j \in Completed("signup") :
         /\ done[i].status = 201
         /\ done[j].status = 201
         /\ done[i].email = done[j].email
         => i = j

\* C31: an identity with a stored refresh token is confirmed and every cached
\* snapshot is of a confirmed identity; no step takes the confirmed flag of an
\* identity from true to false, and every access or refresh token handed out
\* is for an identity that is confirmed.
C31_ConfirmedGate ==
    /\ [](/\ \A e \in DOMAIN users :
               users[e].refresh_token # None => users[e].confirmed
          /\ \A k \in DOMAIN cache : cache[k].snap.confirmed)
    /\ [][/\ \A e \in DOMAIN users \cap DOMAIN users' :
               users[e].confirmed => users'[e].confirmed
          /\ \A t \in (issued' \ issued) \cup
                       {resp'.tokens[i] : i \in 1..Len(resp'.tokens)} :
               Scope(t) \in {"access_token", "refresh_token"}
               => /\ t.claims.sub \in DOMAIN users
                  /\ users[t.claims.sub].confirmed
                  /\ users'[t.claims.sub].confirmed]_vars

\* A confirmed identity holds a stored refresh token and its snapshot is in
\* the cache.
C31_Witness ==
    \E k \in DOMAIN cache \cap DOMAIN users :
        /\ users[k].refresh_token # None
        /\ users[k].confirmed
        /\ cache[k].snap.confirmed

\* C32: a successful password reset writes the credential of its identity and
\* nothing else: every other column of the row, every other row and the cache
\* are as before, so the refresh token that was stored is still the stored one.
C32_ResetFrame ==
    [][resp'.detail = "Password reset successfully"
       => \A t \in Presentable, p1, p2 \in Passwords, s \in Salts :
            reset_password(t, p1, p2, s)
            => LET e == t.claims.sub
               IN /\ DOMAIN users' = DOMAIN users
                  /\ \A k \in DOMAIN users \ {e} : users'[k] = users[k]
                  /\ users'[e].refresh_token = users[e].refresh_token
                  /\ users'[e].confirmed = users[e].confirmed
                  /\ users'[e].email = users[e].email
                  /\ users'[e].avatar = users[e].avatar
                  /\ cache' = cache
                  /\ \A r \in issued :
                       (/\ decode_refresh_token(r, now) = "ok"
                        /\ users[e].refresh_token = Some(r))
                       => users'[e].refresh_token = Some(r)]_vars

\* The refresh endpoint accepted a refresh token of an identity whose
\* credential a reset has replaced since its snapshot was cached.
C32_Witness ==
    /\ resp.op = "refresh_token"
    /\ resp.status = 200
    /\ \E k \in DOMAIN cache \cap DOMAIN users :
          /\ cache[k].snap.password # users[k].password
          /\ cache[k].snap.refresh_token # None
          /\ resp.tokens[2].claims.sub = k

\* C33: search_contacts answers 200 with exactly the current user's contacts
\* that equal every filter that is supplied and not empty; an absent or empty
\* filter excludes nothing, and the table is not changed.
C33_SearchExact ==
    [][resp'.op = "search_contacts"
       => \A f \in Filters(FirstNames), l \in Filters(LastNames),
             e \in Filters(ContactEmails), u \in Emails :
            search_contacts(f, l, e, u)
            => /\ resp'.status = 200
               /\ contacts' = contacts
               /\ found' # None
               /\ \A i \in DOMAIN contacts :
                    i \in found'[1]
                    <=> /\ contacts[i].user = u
                        /\ f \in {None, Some(""), Some(contacts[i].first_name)}
                        /\ l \in {None, Some(""), Some(contacts[i].last_name)}
                        /\ e \in {None, Some(""), Some(contacts[i].email)}
               /\ found'[1] \subseteq DOMAIN contacts]_vars

\* A search returned some but not all of the contacts of a user who has two.
C33_Witness ==
    /\ resp.op = "search_contacts"
    /\ resp.status = 200
    /\ found # None
    /\ Cardinality(found[1]) = 1
    /\ \E u \in Emails : \A i \in DOMAIN contacts : contacts[i].user = u
    /\ Cardinality(DOMAIN contacts) = 2

\* The month and day of the dates today, today + 1, ..., today + 7.
NextWeek == {<<AddDays(today, k)[2], AddDays(today, k)[3]>> : k \in 0..7}

\* C34: get_upcoming_birthdays answers with exactly the current user's
\* contacts whose birthday, by month and day, is one of the days from today
\* to today + 7, whatever the date of today and the stored birth dates.
C34_NextSevenDays ==
    [][resp'.op = "get_upcoming_birthdays"
       => \A u \in Emails :
            get_upcoming_birthdays(u)
            => /\ resp'.status = 200
               /\ found' # None
               /\ found'[1] =
                    {i \in DOMAIN contacts :
                        /\ contacts[i].user = u
                        /\ <<contacts[i].birthday[2], contacts[i].birthday[3]>>
                             \in NextWeek}]_vars

====
